---- MODULE Spec2Model ----
(***************************************************************************)
(* Model of utils/patch_leds_cli.py: the LED patching tool.  A sparse map   *)
(* led_id -> record is loaded from a CSV file, the missing ids of           *)
(* [0, total_leds) are filled by linear interpolation between the nearest   *)
(* present ids, pass after pass, and the result is written back.            *)
(*                                                                         *)
(* Numbers that Python holds as floats are modelled as exact rationals      *)
(* <<numerator, denominator>> in lowest terms with a positive denominator;  *)
(* floating-point rounding is not modelled.                                 *)
(***************************************************************************)
EXTENDS Integers, Sequences, FiniteSets, TLC

(* ------------------------------ bounds -------------------------------- *)
\* largest total_leds argument tried
MaxTotal == 6
\* largest max_iterations argument tried on a direct call of patch_leds
MaxCap == 2
\* the indices a CSV row may carry: MinKey .. MaxKey.  Indices are loaded
\* without validation (lines 23-33), so the range holds a negative index and,
\* for every total_leds below MaxTotal, indices at or beyond total_leds
MinKey == 0 - 1
MaxKey == MaxTotal - 1

\* default of the max_iterations parameter (line 109), used by main (line 203)
DefaultMaxIterations == 1000

\* Python's None for "no neighbour" (lines 70, 78): a value that is no key
None == MinKey - 1
\* exit status of a process that has not exited
Running == 0 - 1

(* --------------------------- exact rationals --------------------------- *)
Abs(n) == IF n < 0 THEN 0 - n ELSE n

\* greatest common divisor of a >= 0 and b > 0
GCD(a, b) ==
    LET common == { d \in 1..b : a % d = 0 /\ b % d = 0 }
    IN  CHOOSE d \in common : \A e \in common : e <= d

\* lowest terms, positive denominator (d # 0)
Norm(n, d) ==
    LET s == IF d < 0 THEN 0 - 1 ELSE 1
        g == GCD(Abs(n), Abs(d))
    IN  <<(s * n) \div g, (s * d) \div g>>

\* a * (1 - f) + b * f for rationals a, b and f = f[1] / f[2], f[2] # 0
\* (lines 97-99), brought over the common denominator a[2] * b[2] * f[2]
Lerp(a, b, f) ==
    Norm(a[1] * b[2] * (f[2] - f[1]) + b[1] * a[2] * f[1], a[2] * b[2] * f[2])

\* float(text) of a CSV field holding the integer n (lines 26-32)
Float(n) == <<n, 1>>
Zero == Float(0)

(* ------------------------------ CSV rows ------------------------------- *)
\* the field values a row may carry besides its index
SampleValues ==
    { [x |-> 0,  y |-> 0, z |-> 0, xn |-> 0, yn |-> 0, zn |-> 1, error |-> 2],
      [x |-> 10, y |-> 0, z |-> 0, xn |-> 0, yn |-> 1, zn |-> 0, error |-> 3] }

Row(k, v) == [index |-> k, x |-> v.x, y |-> v.y, z |-> v.z,
              xn |-> v.xn, yn |-> v.yn, zn |-> v.zn, error |-> v.error]

Min(S) == CHOOSE m \in S : \A k \in S : m <= k
Max(S) == CHOOSE m \in S : \A k \in S : m >= k

\* sorted(S) for a finite set of integers: the element with i-1 smaller
\* elements stands at position i
sorted(S) ==
    [i \in 1..Cardinality(S) |-> CHOOSE x \in S : Cardinality({ y \in S : y < x }) = i - 1]

\* a CSV file with one row per index of f, in ascending index order
RowsOf(f) == LET ks == sorted(DOMAIN f)
             IN  [i \in 1..Len(ks) |-> Row(ks[i], f[ks[i]])]

Files == { RowsOf(f) : f \in UNION { [K -> SampleValues] : K \in SUBSET (MinKey..MaxKey) } }

(* ------------------------- load_leds_from_csv -------------------------- *)
RowRecord(row) ==
    [x |-> Float(row.x), y |-> Float(row.y), z |-> Float(row.z),
     xn |-> Float(row.xn), yn |-> Float(row.yn), zn |-> Float(row.zn),
     error |-> Float(row.error)]

\* leds[int(row['index'])] = {...} for each row in file order: a later row
\* with the same index replaces an earlier one
load_leds_from_csv(rows) ==
    [k \in { rows[i].index : i \in 1..Len(rows) } |->
        LET last == Max({ i \in 1..Len(rows) : rows[i].index = k })
        IN  RowRecord(rows[last])]

(* -------------------------- save_leds_to_csv --------------------------- *)
save_leds_to_csv(leds) ==
    LET ks == sorted(DOMAIN leds)
    IN  [i \in 1..Len(ks) |->
            [index |-> ks[i], x |-> leds[ks[i]].x, y |-> leds[ks[i]].y,
             z |-> leds[ks[i]].z, xn |-> leds[ks[i]].xn, yn |-> leds[ks[i]].yn,
             zn |-> leds[ks[i]].zn, error |-> leds[ks[i]].error]]

(* --------------------------- find_missing_ids -------------------------- *)
range(n) == 0..(n - 1)

\* faulty variant: the existing ids are not subtracted
find_missing_ids_all(leds, total_leds) ==
    sorted(range(total_leds))

\* faulty variant: range(1, total_leds + 1)
find_missing_ids_from1(leds, total_leds) ==
    sorted((1..total_leds) \ DOMAIN leds)

\* faulty variant: sorted(..., reverse=True)
find_missing_ids_desc(leds, total_leds) ==
    LET asc == sorted(range(total_leds) \ DOMAIN leds)
    IN  [i \in 1..Len(asc) |-> asc[Len(asc) + 1 - i]]

find_missing_ids(leds, total_leds) ==
    LET existing_ids == DOMAIN leds
        all_ids == range(total_leds)
    IN  sorted(all_ids \ existing_ids)

(* ------------------------- nearest neighbours -------------------------- *)
\* faulty variant: "id != led_id" for "id < led_id"
find_nearest_prev_led_ne(leds, led_id) ==
    LET prev_ids == { id \in DOMAIN leds : id # led_id }
    IN  IF prev_ids = {} THEN None ELSE Max(prev_ids)

find_nearest_prev_led(leds, led_id) ==
    LET prev_ids == { id \in DOMAIN leds : id < led_id }
    IN  IF prev_ids = {} THEN None ELSE Max(prev_ids)

\* faulty variant: only the key right above led_id counts
find_nearest_next_led_adjacent(leds, led_id) ==
    LET next_ids == { id \in DOMAIN leds : id = led_id + 1 }
    IN  IF next_ids = {} THEN None ELSE Min(next_ids)

\* faulty variant: max() for min()
find_nearest_next_led_max(leds, led_id) ==
    LET next_ids == { id \in DOMAIN leds : id > led_id }
    IN  IF next_ids = {} THEN None ELSE Max(next_ids)

find_nearest_next_led(leds, led_id) ==
    LET next_ids == { id \in DOMAIN leds : id > led_id }
    IN  IF next_ids = {} THEN None ELSE Min(next_ids)

(* ---------------------------- interpolate_led -------------------------- *)
\* faulty variant: the two weights are swapped
interpolate_led_swapped(leds, led_id, prev_id, next_id) ==
    LET prev_led == leds[prev_id]
        next_led == leds[next_id]
        total_gap == next_id - prev_id
        fraction == <<led_id - prev_id, total_gap>>
        mix(a, b) == Lerp(b, a, fraction)
    IN  [x |-> mix(prev_led.x, next_led.x),
         y |-> mix(prev_led.y, next_led.y),
         z |-> mix(prev_led.z, next_led.z),
         xn |-> Zero, yn |-> Zero, zn |-> Zero, error |-> Zero]

\* faulty variant: normal and error are interpolated like the position
interpolate_led_normals(leds, led_id, prev_id, next_id) ==
    LET prev_led == leds[prev_id]
        next_led == leds[next_id]
        total_gap == next_id - prev_id
        fraction == <<led_id - prev_id, total_gap>>
        mix(a, b) == Lerp(a, b, fraction)
    IN  [x |-> mix(prev_led.x, next_led.x),
         y |-> mix(prev_led.y, next_led.y),
         z |-> mix(prev_led.z, next_led.z),
         xn |-> mix(prev_led.xn, next_led.xn),
         yn |-> mix(prev_led.yn, next_led.yn),
         zn |-> mix(prev_led.zn, next_led.zn),
         error |-> mix(prev_led.error, next_led.error)]

interpolate_led(leds, led_id, prev_id, next_id) ==
    LET prev_led == leds[prev_id]
        next_led == leds[next_id]
        total_gap == next_id - prev_id
        fraction == <<led_id - prev_id, total_gap>>
        mix(a, b) == Lerp(a, b, fraction)
    IN  [x |-> mix(prev_led.x, next_led.x),
         y |-> mix(prev_led.y, next_led.y),
         z |-> mix(prev_led.z, next_led.z),
         xn |-> Zero, yn |-> Zero, zn |-> Zero, error |-> Zero]

(* ------------------------------- state --------------------------------- *)
VARIABLES
    input_csv,              \* the input file: exists, malformed, rows
    entry,                  \* "main" (the CLI) or "patch_leds" (a direct call)
    total_leds,             \* --total-leds / total_leds argument
    max_iterations,         \* max_iterations argument of patch_leds
    pc,                     \* position in the code
    leds,                   \* the dictionary led_id -> record
    iteration,              \* line 126
    missing_ids,            \* line 129
    idx,                    \* position of the for loop (line 136) in missing_ids
    patched_this_iteration, \* line 134
    state,                  \* RUNNING, CONVERGED, STALLED, EXHAUSTED
    stdout,                 \* the messages printed so far
    exit_code,              \* exit status of the process, Running before it ends
    output_csv,             \* the output file: written, rows
    loaded,                 \* history: the dictionary right after loading
    log,                    \* history: <<iteration, led_id>> of every assignment of line 142
    lookup                  \* led_id, prev_id, next_id of the last visit (lines 136-138)

vars == <<input_csv, entry, total_leds, max_iterations, pc, leds, iteration,
          missing_ids, idx, patched_this_iteration, state, stdout, exit_code,
          output_csv, loaded, log, lookup>>

EmptyMap == [k \in {} |-> Zero]

\* no id visited yet
NoLookup == [led_id |-> None, prev_id |-> None, next_id |-> None]

\* a missing file, a file with a field that int()/float() rejects (its rows
\* never reach the dictionary and are not represented), or a well-formed file
InputFiles ==
    { [exists |-> FALSE, malformed |-> FALSE, rows |-> << >>],
      [exists |-> TRUE, malformed |-> TRUE, rows |-> << >>] }
    \cup [exists : {TRUE}, malformed : {FALSE}, rows : Files]

Init ==
    /\ input_csv \in InputFiles
    /\ total_leds \in 0..MaxTotal
    /\ \/ entry = "main" /\ max_iterations = DefaultMaxIterations /\ pc = "main"
       \/ entry = "patch_leds" /\ max_iterations \in 0..MaxCap /\ pc = "load"
    /\ leds = EmptyMap
    /\ iteration = 0
    /\ missing_ids = << >>
    /\ idx = 0
    /\ patched_this_iteration = 0
    /\ state = "RUNNING"
    /\ stdout = << >>
    /\ exit_code = Running
    /\ output_csv = [written |-> FALSE, rows |-> << >>]
    /\ loaded = EmptyMap
    /\ log = << >>
    /\ lookup = NoLookup

\* where control goes when patch_leds raises / returns
Raise == IF entry = "main" THEN "exit" ELSE "raised"
RaiseCode == IF entry = "main" THEN 1 ELSE exit_code

(* ------------------------------- main ---------------------------------- *)
\* faulty variant: sys.exit(1) is missing after the error message
MainMissing_noexit ==
    /\ pc = "main"
    /\ ~input_csv.exists
    /\ stdout' = Append(stdout, "Error: Input file does not exist")
    /\ pc' = "load"
    /\ UNCHANGED <<lookup, input_csv, entry, total_leds, max_iterations, leds, iteration,
                   missing_ids, idx, patched_this_iteration, state, exit_code,
                   output_csv, loaded, log>>

\* lines 186-191: the input file does not exist
MainMissing ==
    /\ pc = "main"
    /\ ~input_csv.exists
    /\ stdout' = Append(stdout, "Error: Input file does not exist")
    /\ exit_code' = 1
    /\ pc' = "exit"
    /\ UNCHANGED <<lookup, input_csv, entry, total_leds, max_iterations, leds, iteration,
                   missing_ids, idx, patched_this_iteration, state, output_csv,
                   loaded, log>>

\* lines 186-203: the input file exists, patch_leds is called
MainPatch ==
    /\ pc = "main"
    /\ input_csv.exists
    /\ stdout' = Append(stdout, "Patching LEDs...")
    /\ pc' = "load"
    /\ UNCHANGED <<lookup, input_csv, entry, total_leds, max_iterations, leds, iteration,
                   missing_ids, idx, patched_this_iteration, state, exit_code,
                   output_csv, loaded, log>>

(* ----------------------------- patch_leds ------------------------------ *)
\* line 121 raises: open() of a missing file, or int()/float() of a
\* malformed field (lines 21-32); nothing catches the exception
LoadRaise ==
    /\ pc = "load"
    /\ ~input_csv.exists \/ input_csv.malformed
    /\ pc' = Raise
    /\ exit_code' = RaiseCode
    /\ stdout' = Append(stdout, "Traceback")
    /\ UNCHANGED <<lookup, input_csv, entry, total_leds, max_iterations, leds, iteration,
                   missing_ids, idx, patched_this_iteration, state, output_csv,
                   loaded, log>>

\* lines 121-126
Load ==
    /\ pc = "load"
    /\ input_csv.exists /\ ~input_csv.malformed
    /\ leds' = load_leds_from_csv(input_csv.rows)
    /\ loaded' = leds'
    /\ stdout' = Append(stdout, "Loaded")
    /\ iteration' = 0
    /\ pc' = "while"
    /\ UNCHANGED <<lookup, input_csv, entry, total_leds, max_iterations, missing_ids, idx,
                   patched_this_iteration, state, exit_code, output_csv, log>>

\* line 127
loop_condition(n, total, iter, cap) == n < total /\ iter < cap

\* faulty variant: the stall check is missing
no_progress_never(patched) == FALSE

\* faulty variant: "<= 1" for "== 0"
no_progress_le1(patched) == patched <= 1

\* line 145
no_progress(patched) == patched = 0

\* line 127 false: the loop ends on the map size, or else on the cap
WhileExit ==
    /\ pc = "while"
    /\ ~loop_condition(Cardinality(DOMAIN leds), total_leds, iteration, max_iterations)
    /\ state' = IF Cardinality(DOMAIN leds) < total_leds THEN "EXHAUSTED" ELSE "CONVERGED"
    /\ pc' = "report"
    /\ UNCHANGED <<lookup, input_csv, entry, total_leds, max_iterations, leds, iteration,
                   missing_ids, idx, patched_this_iteration, stdout, exit_code,
                   output_csv, loaded, log>>

\* lines 127-134: one more iteration starts (or breaks at line 132)
WhileEnter ==
    /\ pc = "while"
    /\ loop_condition(Cardinality(DOMAIN leds), total_leds, iteration, max_iterations)
    /\ iteration' = iteration + 1
    /\ missing_ids' = find_missing_ids(leds, total_leds)
    /\ IF missing_ids' = << >>
       THEN /\ state' = "CONVERGED"
            /\ pc' = "report"
            /\ UNCHANGED <<patched_this_iteration, idx>>
       ELSE /\ patched_this_iteration' = 0
            /\ idx' = 1
            /\ pc' = "for"
            /\ UNCHANGED state
    /\ UNCHANGED <<lookup, input_csv, entry, total_leds, max_iterations, leds, stdout,
                   exit_code, output_csv, loaded, log>>

\* faulty variant: the lookups read the map as it was loaded, so an id
\* inserted earlier in the pass is not seen
ForStep_snapshot ==
    /\ pc = "for"
    /\ idx <= Len(missing_ids)
    /\ LET led_id == missing_ids[idx]
           snapshot == [k \in DOMAIN loaded |-> leds[k]]
           prev_id == find_nearest_prev_led(snapshot, led_id)
           next_id == find_nearest_next_led(snapshot, led_id)
       IN  IF prev_id # None /\ next_id # None
           THEN IF next_id - prev_id = 0
                THEN \* ZeroDivisionError at line 93
                     /\ pc' = Raise
                     /\ exit_code' = RaiseCode
                     /\ stdout' = Append(stdout, "Traceback")
                     /\ UNCHANGED <<leds, patched_this_iteration, idx, log>>
                ELSE /\ leds' = [k \in DOMAIN leds \cup {led_id} |->
                                   IF k = led_id
                                   THEN interpolate_led(snapshot, led_id, prev_id, next_id)
                                   ELSE leds[k]]
                     /\ patched_this_iteration' = patched_this_iteration + 1
                     /\ log' = Append(log, <<iteration, led_id>>)
                     /\ idx' = idx + 1
                     /\ UNCHANGED <<pc, exit_code, stdout>>
           ELSE /\ idx' = idx + 1
                /\ UNCHANGED <<leds, patched_this_iteration, log, pc, exit_code, stdout>>
    /\ lookup' = LET snapshot == [k \in DOMAIN loaded |-> leds[k]] IN
                 [led_id |-> missing_ids[idx],
                  prev_id |-> find_nearest_prev_led(snapshot, missing_ids[idx]),
                  next_id |-> find_nearest_next_led(snapshot, missing_ids[idx])]
    /\ UNCHANGED <<input_csv, entry, total_leds, max_iterations, iteration,
                   missing_ids, state, output_csv, loaded>>

\* lines 136-143: the for loop visits missing_ids[idx]
ForStep ==
    /\ pc = "for"
    /\ idx <= Len(missing_ids)
    /\ LET led_id == missing_ids[idx]
           prev_id == find_nearest_prev_led(leds, led_id)
           next_id == find_nearest_next_led(leds, led_id)
       IN  IF prev_id # None /\ next_id # None
           THEN IF next_id - prev_id = 0
                THEN \* ZeroDivisionError at line 93
                     /\ pc' = Raise
                     /\ exit_code' = RaiseCode
                     /\ stdout' = Append(stdout, "Traceback")
                     /\ UNCHANGED <<leds, patched_this_iteration, idx, log>>
                ELSE /\ leds' = [k \in DOMAIN leds \cup {led_id} |->
                                   IF k = led_id
                                   THEN interpolate_led(leds, led_id, prev_id, next_id)
                                   ELSE leds[k]]
                     /\ patched_this_iteration' = patched_this_iteration + 1
                     /\ log' = Append(log, <<iteration, led_id>>)
                     /\ idx' = idx + 1
                     /\ UNCHANGED <<pc, exit_code, stdout>>
           ELSE /\ idx' = idx + 1
                /\ UNCHANGED <<leds, patched_this_iteration, log, pc, exit_code, stdout>>
    /\ lookup' = [led_id |-> missing_ids[idx],
                  prev_id |-> find_nearest_prev_led(leds, missing_ids[idx]),
                  next_id |-> find_nearest_next_led(leds, missing_ids[idx])]
    /\ UNCHANGED <<input_csv, entry, total_leds, max_iterations, iteration,
                   missing_ids, state, output_csv, loaded>>

\* lines 145-147: the pass patched nothing
ForEndStalled ==
    /\ pc = "for"
    /\ idx > Len(missing_ids)
    /\ no_progress(patched_this_iteration)
    /\ stdout' = Append(stdout, "Warning: Could not patch any more LEDs.")
    /\ state' = "STALLED"
    /\ pc' = "report"
    /\ UNCHANGED <<lookup, input_csv, entry, total_leds, max_iterations, leds, iteration,
                   missing_ids, idx, patched_this_iteration, exit_code, output_csv,
                   loaded, log>>

\* lines 145-150: the pass patched something, back to line 127
ForEndProgress ==
    /\ pc = "for"
    /\ idx > Len(missing_ids)
    /\ ~no_progress(patched_this_iteration)
    /\ stdout' = Append(stdout, "Iteration: Patched")
    /\ pc' = "while"
    /\ UNCHANGED <<lookup, input_csv, entry, total_leds, max_iterations, leds, iteration,
                   missing_ids, idx, patched_this_iteration, state, exit_code,
                   output_csv, loaded, log>>

\* lines 152-157
Report ==
    /\ pc = "report"
    /\ stdout' = Append(stdout,
                    IF Cardinality(DOMAIN leds) = total_leds
                    THEN "Successfully patched all LEDs!"
                    ELSE "Warning: Only patched")
    /\ pc' = IF entry = "main" THEN "save" ELSE "returned"
    /\ UNCHANGED <<lookup, input_csv, entry, total_leds, max_iterations, leds, iteration,
                   missing_ids, idx, patched_this_iteration, state, exit_code,
                   output_csv, loaded, log>>

\* lines 205-209, then the process ends normally
Save ==
    /\ pc = "save"
    /\ output_csv' = [written |-> TRUE, rows |-> save_leds_to_csv(leds)]
    /\ stdout' = Append(stdout, "Done!")
    /\ exit_code' = 0
    /\ pc' = "exit"
    /\ UNCHANGED <<lookup, input_csv, entry, total_leds, max_iterations, leds, iteration,
                   missing_ids, idx, patched_this_iteration, state, loaded, log>>

Next ==
    \/ MainMissing
    \/ MainPatch
    \/ LoadRaise
    \/ Load
    \/ WhileExit
    \/ WhileEnter
    \/ ForStep
    \/ ForEndStalled
    \/ ForEndProgress
    \/ Report
    \/ Save

Spec == Init /\ [][Next]_vars

Done == pc \in {"exit", "returned", "raised"}

TypeOK ==
    /\ pc \in {"main", "load", "while", "for", "report", "save", "exit", "returned", "raised"}
    /\ state \in {"RUNNING", "CONVERGED", "STALLED", "EXHAUSTED"}
    /\ exit_code \in {Running, 0, 1}
    /\ iteration \in 0..DefaultMaxIterations

(* ------------------ the pure functions, called on their own ------------- *)
UnitInit ==
    /\ input_csv \in [exists : {TRUE}, malformed : {FALSE}, rows : Files]
    /\ total_leds \in 0..MaxTotal
    /\ entry = "find_missing_ids"
    /\ max_iterations = DefaultMaxIterations
    /\ pc = "call"
    /\ leds = load_leds_from_csv(input_csv.rows)
    /\ loaded = leds
    /\ iteration = 0
    /\ missing_ids = << >>
    /\ idx = 0
    /\ patched_this_iteration = 0
    /\ state = "RUNNING"
    /\ stdout = << >>
    /\ exit_code = Running
    /\ output_csv = [written |-> FALSE, rows |-> << >>]
    /\ log = << >>
    /\ lookup = NoLookup

\* lines 59-63, on any loaded dictionary and any total_leds
CallFindMissingIds ==
    /\ pc = "call"
    /\ missing_ids' = find_missing_ids(leds, total_leds)
    /\ pc' = "result"
    /\ UNCHANGED <<lookup, input_csv, entry, total_leds, max_iterations, leds, iteration,
                   idx, patched_this_iteration, state, stdout, exit_code,
                   output_csv, loaded, log>>

\* lines 66-79, on any loaded dictionary and any id, present or not
CallFindNearest ==
    /\ pc = "call"
    /\ \E q \in MinKey..(MaxKey + 1) :
          lookup' = [led_id |-> q,
                     prev_id |-> find_nearest_prev_led(leds, q),
                     next_id |-> find_nearest_next_led(leds, q)]
    /\ pc' = "nearest"
    /\ UNCHANGED <<input_csv, entry, total_leds, max_iterations, leds, iteration,
                   missing_ids, idx, patched_this_iteration, state, stdout,
                   exit_code, output_csv, loaded, log>>

UnitNext == CallFindMissingIds \/ CallFindNearest

UnitSpec == UnitInit /\ [][UnitNext]_vars

(* ------------------------- vocabulary of the claims --------------------- *)
\* patch_leds has returned its dictionary (line 157)
Returned == pc \in {"save", "returned"} \/ (pc = "exit" /\ output_csv.written)

\* the ids of [0, total_leds) that are not keys of m
Gaps(m) == { g \in 0..(total_leds - 1) : g \notin DOMAIN m }

HasLower(m, g) == \E a \in DOMAIN m : a < g
HasUpper(m, g) == \E b \in DOMAIN m : b > g
\* the keys the engine has inserted
Inserted == DOMAIN leds \ DOMAIN loaded
Printed(msg) == \E n \in 1..Len(stdout) : stdout[n] = msg

(* C1: when patch_leds returns, the map has at most total_count entries and *)
(* every key of the map lies in [0, total_count).                           *)
C1_SizeAndKeysInRange ==
    Returned =>
        /\ Cardinality(DOMAIN leds) <= total_leds
        /\ \A k \in DOMAIN leds : 0 <= k /\ k < total_leds

(* C2: patch_leds only ever inserts: a key of the map keeps its record in   *)
(* every step (so loaded records are unchanged, no key is removed), and the *)
(* engine assigns each id at most once and never an id that was loaded.     *)
C2_LogOnce ==
    /\ \A m, n \in 1..Len(log) : m # n => log[m][2] # log[n][2]
    /\ \A n \in 1..Len(log) : log[n][2] \notin DOMAIN loaded

C2_OnlyInserts ==
    [][/\ \A k \in DOMAIN leds : k \in DOMAIN leds' /\ leds'[k] = leds[k]
       /\ C2_LogOnce'
       /\ \A k \in DOMAIN loaded' : k \in DOMAIN leds' /\ leds'[k] = loaded'[k]]_vars

\* a run of two iterations that inserted ids next to loaded records
C2_Witness ==
    /\ Returned
    /\ iteration = 2
    /\ Len(log) >= 2
    /\ Cardinality(DOMAIN loaded) >= 2

(* C3: an id below every present key, or above every present key, is never  *)
(* inserted: every inserted id has a present key below it and one above it, *)
(* and the minimum and the maximum key do not change during patching.       *)
C3_EdgeGapsNeverPatched ==
    [][pc \notin {"main", "load"} =>
        /\ \A g \in DOMAIN leds' \ DOMAIN leds : HasLower(leds, g) /\ HasUpper(leds, g)
        /\ DOMAIN leds' # {} =>
              /\ DOMAIN leds # {}
              /\ Min(DOMAIN leds') = Min(DOMAIN leds)
              /\ Max(DOMAIN leds') = Max(DOMAIN leds)]_vars

\* a finished run that patched something and left gaps on both edges
C3_Witness ==
    /\ Returned
    /\ Len(log) >= 1
    /\ \E g \in Gaps(leds) : ~HasLower(leds, g)
    /\ \E g \in Gaps(leds) : ~HasUpper(leds, g)
    /\ max_iterations >= 2

(* C4: with (0,0,0) at id 0, (10,0,0) at id 5 and total_count = 6 (cap at   *)
(* least 1) ids 1..4 end with x = 2,4,6,8, y = z = 0, normal 0, error 0; in *)
(* general every inserted id g between the nearest loaded keys a < g < b    *)
(* has position a.pos*(1-f) + b.pos*f with f = (g-a)/(b-a), exactly.        *)
C4_IsScenario ==
    /\ DOMAIN loaded = {0, 5}
    /\ total_leds = 6
    /\ max_iterations >= 1
    /\ <<loaded[0].x, loaded[0].y, loaded[0].z>> = <<Float(0), Float(0), Float(0)>>
    /\ <<loaded[5].x, loaded[5].y, loaded[5].z>> = <<Float(10), Float(0), Float(0)>>

\* p = A*(1-f) + B*f for f = num/den, by cross-multiplication
C4_OnLine(p, A, B, num, den) ==
    p[1] * (A[2] * B[2] * den) = p[2] * (A[1] * B[2] * (den - num) + B[1] * A[2] * num)

C4_Interpolation ==
    /\ \A g \in Inserted :
          LET a == Max({ k \in DOMAIN loaded : k < g })
              b == Min({ k \in DOMAIN loaded : k > g })
          IN  /\ C4_OnLine(leds[g].x, loaded[a].x, loaded[b].x, g - a, b - a)
              /\ C4_OnLine(leds[g].y, loaded[a].y, loaded[b].y, g - a, b - a)
              /\ C4_OnLine(leds[g].z, loaded[a].z, loaded[b].z, g - a, b - a)
    /\ (C4_IsScenario /\ Returned) =>
          /\ DOMAIN leds = 0..5
          /\ \A g \in 1..4 :
                leds[g] = [x |-> <<2 * g, 1>>, y |-> <<0, 1>>, z |-> <<0, 1>>,
                           xn |-> <<0, 1>>, yn |-> <<0, 1>>, zn |-> <<0, 1>>,
                           error |-> <<0, 1>>]

C4_Witness == C4_IsScenario /\ Returned /\ Len(log) = 4

(* C5: every record inserted by patch_leds has normal (0,0,0) and error 0,  *)
(* whatever the normals and errors of its neighbours.                       *)
C5_InsertedAreSynthetic ==
    \A g \in Inserted :
        /\ leds[g].xn = <<0, 1>> /\ leds[g].yn = <<0, 1>> /\ leds[g].zn = <<0, 1>>
        /\ leds[g].error = <<0, 1>>

\* an inserted id whose two loaded neighbours carry non-zero normals and errors
C5_Witness ==
    /\ Returned
    /\ \E g \in Inserted :
          /\ g - 1 \in DOMAIN loaded /\ g + 1 \in DOMAIN loaded
          /\ loaded[g - 1].error # <<0, 1>> /\ loaded[g + 1].error # <<0, 1>>
          /\ loaded[g - 1].zn # <<0, 1>> /\ loaded[g + 1].yn # <<0, 1>>

(* C6: patch_leds always terminates.  Every step of the program strictly   *)
(* decreases a natural-valued measure, so every run is finite, and the      *)
(* program is at a line that can execute until it has ended; once the loop  *)
(* has ended the                                                            *)
(* state is CONVERGED, STALLED or EXHAUSTED; an iteration after which the   *)
(* loop goes on has strictly shrunk the set of missing ids; an iteration    *)
(* that starts with only edge gaps ends the loop in STALLED; the iteration  *)
(* count never passes the cap and the loop stops when it reaches it.        *)
C6_Measure ==
    LET K == total_leds + 3
    IN  CASE pc = "main"   -> (total_leds + 1) * K + 2
          [] pc = "load"   -> (total_leds + 1) * K + 1
          [] pc = "while"  -> (Cardinality(Gaps(leds)) + 1) * K
          [] pc = "for"    -> (Len(missing_ids) + 1) * K - idx
          [] pc = "report" -> 2
          [] pc = "save"   -> 1
          [] OTHER         -> 0

\* every id of missing_ids lacks a present key on one side: the iteration
\* started with only edge gaps (a patched id has a key on both sides)
C6_OnlyEdgeGaps ==
    \A n \in 1..Len(missing_ids) :
        ~(HasLower(leds, missing_ids[n]) /\ HasUpper(leds, missing_ids[n]))

\* the program is at a line whose step can be taken
C6_CanStep ==
    \/ pc \in {"main", "load", "while", "report", "save"}
    \/ pc = "for" /\ 1 <= idx /\ idx <= Len(missing_ids) + 1

C6_LoopEnded == pc \in {"report", "save", "returned"} \/ (pc = "exit" /\ Printed("Loaded"))

C6_Termination ==
    /\ [][C6_Measure' < C6_Measure]_vars
    /\ [](C6_Measure >= 0)
    /\ [](Done \/ C6_CanStep)
    /\ [](C6_LoopEnded <=> state \in {"CONVERGED", "STALLED", "EXHAUSTED"})
    /\ [][(pc = "for" /\ pc' = "while") =>
            /\ Gaps(leds') \subseteq { missing_ids[n] : n \in 1..Len(missing_ids) }
            /\ Cardinality(Gaps(leds')) < Len(missing_ids)]_vars
    /\ [][(pc = "for" /\ idx > Len(missing_ids) /\ C6_OnlyEdgeGaps) =>
            (pc' = "report" /\ state' = "STALLED")]_vars
    /\ [][(pc = "while" /\ iteration >= max_iterations) => pc' = "report"]_vars
    /\ [](iteration <= max_iterations)

\* a loop that made progress in its first iteration and stalled in its second
C6_Witness ==
    /\ pc = "report"
    /\ state = "STALLED"
    /\ iteration = 2
    /\ Len(log) >= 1

(* C7: on a map with zero missing ids in [0, total_count) patch_leds        *)
(* inserts and modifies nothing, executes no iteration and ends at once in  *)
(* CONVERGED with the success message and no warning.                       *)
C7_ConvergedRerun ==
    (Returned /\ Gaps(loaded) = {}) =>
        /\ leds = loaded
        /\ log = << >>
        /\ iteration = 0
        /\ state = "CONVERGED"
        /\ Printed("Successfully patched all LEDs!")
        /\ ~Printed("Warning: Only patched")
        /\ ~Printed("Warning: Could not patch any more LEDs.")

(* C8: stall scenario.  From keys {2, 4} with total_count = 5, run by main: *)
(* ids 0 and 1 are never patched, id 3 is patched in iteration 1, iteration *)
(* 2 patches nothing and ends the loop STALLED with the stall warning, the  *)
(* final map has 3 entries and the process exits with code 0.               *)
C8_IsScenario ==
    /\ entry = "main"
    /\ DOMAIN loaded = {2, 4}
    /\ total_leds = 5

C8_StallScenario ==
    C8_IsScenario =>
        /\ 0 \notin DOMAIN leds /\ 1 \notin DOMAIN leds
        /\ iteration <= 2
        /\ pc = "exit" =>
              /\ log = << <<1, 3>> >>
              /\ iteration = 2 /\ patched_this_iteration = 0
              /\ state = "STALLED"
              /\ stdout = << "Patching LEDs...", "Loaded", "Iteration: Patched",
                             "Warning: Could not patch any more LEDs.",
                             "Warning: Only patched", "Done!" >>
              /\ DOMAIN leds = {2, 3, 4}
              /\ Len(output_csv.rows) = 3
              /\ exit_code = 0

C8_Witness == C8_IsScenario /\ pc = "exit"

(* C9 as stated: main exits with code 1 and a diagnostic, before the engine *)
(* runs and without output, when the input file does not exist; in every    *)
(* other case it writes the output and exits with code 0.                   *)
C9_MissingInput ==
    /\ pc \in {"main", "exit"}
    /\ leds = EmptyMap /\ ~Printed("Loaded")
    /\ ~output_csv.written
    /\ pc = "exit" => exit_code = 1 /\ Printed("Error: Input file does not exist")

C9_Original ==
    entry = "main" =>
        IF ~input_csv.exists
        THEN C9_MissingInput
        ELSE pc = "exit" => output_csv.written /\ exit_code = 0

(* C9 amended: ... in every other case in which every row of the input      *)
(* parses, including a partially patched result (STALLED or EXHAUSTED), it  *)
(* writes the output and exits with code 0.                                 *)
C9_ExitCodes ==
    entry = "main" =>
        /\ ~input_csv.exists => C9_MissingInput
        /\ (input_csv.exists /\ ~input_csv.malformed /\ pc = "exit") =>
              /\ output_csv.written
              /\ output_csv.rows = save_leds_to_csv(leds)
              /\ exit_code = 0

C9_Witness ==
    /\ entry = "main" /\ pc = "exit"
    /\ ~input_csv.exists
    /\ exit_code = 1

(* C10: find_missing_ids(map, total_count) returns, strictly ascending and  *)
(* without duplicates, exactly the ids of [0, total_count) that are not     *)
(* keys of map, leaves map unchanged, and is empty iff map covers the range.*)
C10_FindMissingIds ==
    pc = "result" =>
        /\ \A m, n \in 1..Len(missing_ids) : m < n => missing_ids[m] < missing_ids[n]
        /\ \A n \in 1..Len(missing_ids) :
              /\ 0 <= missing_ids[n] /\ missing_ids[n] < total_leds
              /\ missing_ids[n] \notin DOMAIN leds
        /\ \A g \in 0..(total_leds - 1) :
              g \notin DOMAIN leds => \E n \in 1..Len(missing_ids) : missing_ids[n] = g
        /\ leds = loaded
        /\ (missing_ids = << >>) <=> (\A g \in 0..(total_leds - 1) : g \in DOMAIN leds)

\* a result with two non-adjacent missing ids, on a map with a key beyond the range
C10_Witness ==
    /\ pc = "result"
    /\ Len(missing_ids) >= 2
    /\ missing_ids[2] > missing_ids[1] + 1
    /\ \E k \in DOMAIN leds : k >= total_leds

(* C11: find_nearest_prev_led(map, id) returns the maximum key of map        *)
(* strictly less than id and find_nearest_next_led(map, id) the minimum key *)
(* strictly greater than id, over the map as it is at the call; each        *)
(* returns None exactly when no such key exists; neither returns id itself. *)
C11_NearestNeighbours ==
    pc = "nearest" =>
        LET q == lookup.led_id
            below == { k \in DOMAIN leds : k < q }
            above == { k \in DOMAIN leds : k > q }
        IN  /\ (lookup.prev_id = None) <=> (below = {})
            /\ (lookup.next_id = None) <=> (above = {})
            /\ below # {} => lookup.prev_id \in below /\ \A k \in below : k <= lookup.prev_id
            /\ above # {} => lookup.next_id \in above /\ \A k \in above : lookup.next_id <= k
            /\ lookup.prev_id # q /\ lookup.next_id # q
            /\ leds = loaded

\* a query for an id that is a key of the map, with further keys on both sides
C11_Witness ==
    /\ pc = "nearest"
    /\ lookup.led_id \in DOMAIN leds
    /\ Cardinality({ k \in DOMAIN leds : k < lookup.led_id }) >= 2
    /\ Cardinality({ k \in DOMAIN leds : k > lookup.led_id }) >= 2

(* C12: patch_leds ends in STALLED (a pass patches zero ids while missing   *)
(* ids remain) exactly when every missing id of that pass is below the      *)
(* minimum present key or above the maximum present key; in STALLED no      *)
(* missing id has both a lower and an upper present neighbour.              *)
C12_EdgeGap(g) ==
    \/ DOMAIN leds = {}
    \/ g < Min(DOMAIN leds)
    \/ g > Max(DOMAIN leds)

C12_StalledIffOnlyEdgeGaps ==
    /\ [](state = "STALLED" =>
            /\ Gaps(leds) # {}
            /\ \A g \in Gaps(leds) : C12_EdgeGap(g) /\ ~(HasLower(leds, g) /\ HasUpper(leds, g)))
    /\ [][(pc = "for" /\ idx > Len(missing_ids)) =>
            ((state' = "STALLED") <=>
                \A n \in 1..Len(missing_ids) : C12_EdgeGap(missing_ids[n]))]_vars

\* a first pass that patched nothing: gaps below and above the present keys
C12_Witness ==
    /\ state = "STALLED"
    /\ iteration = 1
    /\ Cardinality(DOMAIN leds) >= 2
    /\ \E g \in Gaps(leds) : g < Min(DOMAIN leds)
    /\ \E g \in Gaps(leds) : g > Max(DOMAIN leds)

(* C13: every interior gap is eventually patched: with a cap of at least 1, *)
(* every id of [0, total_count) that is missing after loading and has both  *)
(* a lower and an upper present key is a key of the map at return.          *)
C13_InteriorGapsPatched ==
    (Returned /\ max_iterations >= 1) =>
        \A g \in Gaps(loaded) :
            (HasLower(loaded, g) /\ HasUpper(loaded, g)) => g \in DOMAIN leds

(* C19: whenever patch_leds ends in CONVERGED and reports success (map size *)
(* == total_count), the gap set is empty: every id of [0, total_count) is a *)
(* key of the returned map.                                                 *)
C19_ConvergedMeansNoGaps ==
    (Returned /\ state = "CONVERGED" /\ Printed("Successfully patched all LEDs!")) =>
        /\ Gaps(leds) = {}
        /\ \A g \in 0..(total_leds - 1) : g \in DOMAIN leds

(* C14: insertion is immediate and visible to later lookups of the same     *)
(* pass: when g and g+1 are missing ids of one iteration that both lie      *)
(* between present keys, the lookup for g+1 returns g, the id just patched  *)
(* in that iteration, as nearest lower key, not the loaded key below g.     *)
C14_ImmediateInsert ==
    [][(/\ pc = "for"
        /\ 2 <= idx /\ idx <= Len(missing_ids)
        /\ missing_ids[idx] = missing_ids[idx - 1] + 1
        /\ HasLower(loaded, missing_ids[idx - 1])
        /\ HasUpper(loaded, missing_ids[idx]))
       =>
       (/\ lookup'.led_id = missing_ids[idx]
        /\ lookup'.prev_id = missing_ids[idx - 1]
        /\ lookup'.prev_id \notin DOMAIN loaded
        /\ log[Len(log)] = <<iteration, missing_ids[idx - 1]>>
        /\ lookup'.prev_id # Max({ k \in DOMAIN loaded : k < missing_ids[idx - 1] }))]_vars

\* the visit of g+1 found the id g inserted in the same iteration
C14_Witness ==
    /\ pc = "for"
    /\ lookup.prev_id = lookup.led_id - 1
    /\ lookup.prev_id \in Inserted
    /\ lookup.led_id \in Inserted
    /\ Len(log) >= 2
    /\ log[Len(log) - 1] = <<iteration, lookup.prev_id>>

(* C15: within one iteration the missing ids are visited, and therefore     *)
(* inserted, in strictly ascending order: of two ids inserted in the same   *)
(* iteration the smaller is inserted first.                                 *)
C15_AscendingSweep ==
    /\ [](\A m, n \in 1..Len(log) :
            (m < n /\ log[m][1] = log[n][1]) => log[m][2] < log[n][2])
    /\ [][(pc = "for" /\ idx <= Len(missing_ids)) =>
            /\ lookup'.led_id = missing_ids[idx]
            /\ idx > 1 => lookup.led_id < lookup'.led_id
            /\ pc' = "for" => idx' = idx + 1]_vars

\* two ids inserted in one iteration, with a present key between them
C15_Witness ==
    /\ Returned
    /\ \E m \in 1..Len(log) :
          /\ m + 1 <= Len(log)
          /\ log[m][1] = log[m + 1][1]
          /\ log[m][2] + 1 < log[m + 1][2]

(* C16: at every call of interpolate_led made by patch_leds, prev_id and    *)
(* next_id are keys of the map and prev_id < led_id < next_id, so           *)
(* next_id - prev_id is not zero (no ZeroDivisionError) and the fraction    *)
(* lies strictly between 0 and 1.                                           *)
C16_InterpolateArguments ==
    /\ [][(/\ pc = "for" /\ idx <= Len(missing_ids)
           /\ lookup'.prev_id # None /\ lookup'.next_id # None)
          =>
          (/\ lookup'.prev_id \in DOMAIN leds /\ lookup'.next_id \in DOMAIN leds
           /\ lookup'.prev_id < lookup'.led_id /\ lookup'.led_id < lookup'.next_id
           /\ lookup'.next_id - lookup'.prev_id # 0
           /\ 0 < lookup'.led_id - lookup'.prev_id
           /\ lookup'.led_id - lookup'.prev_id < lookup'.next_id - lookup'.prev_id
           /\ pc' = "for"
           /\ lookup'.led_id \in DOMAIN leds')]_vars
    /\ [](Printed("Loaded") => ~Printed("Traceback"))

\* an id interpolated between keys at least three apart
C16_Witness ==
    /\ pc = "for"
    /\ lookup.prev_id # None /\ lookup.next_id # None
    /\ lookup.next_id - lookup.prev_id >= 3
    /\ lookup.led_id \in Inserted

(* C18: the cap is never the reason the loop stops when it is 2 or more:    *)
(* the first iteration patches every id that can ever be patched (every     *)
(* insertion belongs to iteration 1, and once the first pass is over no gap *)
(* has both neighbours), the loop body runs at most twice, and with a cap   *)
(* of at least 2 (default 1000) EXHAUSTED is unreachable: the loop ends in  *)
(* CONVERGED or STALLED.                                                    *)
C18_FirstSweepOver == iteration >= 2 \/ (iteration = 1 /\ pc # "for")

C18_CapNeverReached ==
    /\ iteration <= 2
    /\ \A n \in 1..Len(log) : log[n][1] = 1
    /\ C18_FirstSweepOver =>
          \A g \in Gaps(leds) : ~(HasLower(leds, g) /\ HasUpper(leds, g))
    /\ max_iterations >= 2 => state # "EXHAUSTED"
    /\ (Returned /\ max_iterations >= 2) => state \in {"CONVERGED", "STALLED"}

\* a direct call with cap 2 whose second pass found nothing to patch
C18_Witness ==
    /\ entry = "patch_leds"
    /\ max_iterations = 2
    /\ pc = "returned"
    /\ iteration = 2
    /\ state = "STALLED"
    /\ Len(log) >= 2

(* ------------- the loop of patch_leds as a function of the map ---------- *)
\* lines 136-143: the for loop over ids from position i on
RECURSIVE for_loop(_, _, _)
for_loop(m, ids, i) ==
    IF i > Len(ids)
    THEN m
    ELSE LET led_id == ids[i]
             prev_id == find_nearest_prev_led(m, led_id)
             next_id == find_nearest_next_led(m, led_id)
         IN  IF prev_id # None /\ next_id # None
             THEN for_loop([k \in DOMAIN m \cup {led_id} |->
                              IF k = led_id
                              THEN interpolate_led(m, led_id, prev_id, next_id)
                              ELSE m[k]],
                           ids, i + 1)
             ELSE for_loop(m, ids, i + 1)

\* lines 127-147: the while loop from iteration count iter on; the map and
\* the number of iterations executed
RECURSIVE while_loop(_, _, _, _)
while_loop(m, total, iter, cap) ==
    IF ~loop_condition(Cardinality(DOMAIN m), total, iter, cap)
    THEN [leds |-> m, iteration |-> iter]
    ELSE LET ids == find_missing_ids(m, total)
             after == for_loop(m, ids, 1)
         IN  IF ids = << >>
             THEN [leds |-> m, iteration |-> iter + 1]
             ELSE IF no_progress(Cardinality(DOMAIN after) - Cardinality(DOMAIN m))
                  THEN [leds |-> after, iteration |-> iter + 1]
                  ELSE while_loop(after, total, iter + 1, cap)

(* C20: patch_leds is idempotent on every output of a run that executed     *)
(* (cap at least 1, default 1000), converged or not: run again with the     *)
(* default cap and the same total_count on the returned map, the loop      *)
(* inserts nothing (it ends before or in its first pass) and returns an     *)
(* identical map.  The first conjunct ties the functional form of the loop  *)
(* to the run that produced the map.                                        *)
C20_Idempotent ==
    Returned =>
        /\ while_loop(loaded, total_leds, 0, max_iterations)
              = [leds |-> leds, iteration |-> iteration]
        /\ max_iterations >= 1 =>
              /\ while_loop(leds, total_leds, 0, DefaultMaxIterations).leds = leds
              /\ while_loop(leds, total_leds, 0, DefaultMaxIterations).iteration <= 1

\* a stalled run that inserted something and left gaps at both edges
C20_Witness ==
    /\ Returned
    /\ state = "STALLED"
    /\ Inserted # {}
    /\ \E g \in Gaps(leds) : ~HasLower(leds, g)
    /\ \E g \in Gaps(leds) : ~HasUpper(leds, g)
    /\ while_loop(leds, total_leds, 0, DefaultMaxIterations).iteration = 1

(* ------------ the snapshot variant of the loop (spec section 9) --------- *)
\* the for loop with the neighbour lookups and the interpolation reading
\* snapshot, a copy of the map taken when the iteration starts; insertions
\* go to m
RECURSIVE for_loop_snapshot(_, _, _, _)
for_loop_snapshot(m, snapshot, ids, i) ==
    IF i > Len(ids)
    THEN m
    ELSE LET led_id == ids[i]
             prev_id == find_nearest_prev_led(snapshot, led_id)
             next_id == find_nearest_next_led(snapshot, led_id)
         IN  IF prev_id # None /\ next_id # None
             THEN for_loop_snapshot([k \in DOMAIN m \cup {led_id} |->
                                       IF k = led_id
                                       THEN interpolate_led(snapshot, led_id, prev_id, next_id)
                                       ELSE m[k]],
                                    snapshot, ids, i + 1)
             ELSE for_loop_snapshot(m, snapshot, ids, i + 1)

RECURSIVE while_loop_snapshot(_, _, _, _)
while_loop_snapshot(m, total, iter, cap) ==
    IF ~loop_condition(Cardinality(DOMAIN m), total, iter, cap)
    THEN [leds |-> m, iteration |-> iter]
    ELSE LET ids == find_missing_ids(m, total)
             after == for_loop_snapshot(m, m, ids, 1)
         IN  IF ids = << >>
             THEN [leds |-> m, iteration |-> iter + 1]
             ELSE IF no_progress(Cardinality(DOMAIN after) - Cardinality(DOMAIN m))
                  THEN [leds |-> after, iteration |-> iter + 1]
                  ELSE while_loop_snapshot(after, total, iter + 1, cap)

\* the claim's case: two neighbouring ids were missing after loading, lie
\* between loaded keys and have been patched
C17_AdjacentGaps ==
    \E g \in Gaps(loaded) :
        /\ g + 1 \in Gaps(loaded)
        /\ HasLower(loaded, g) /\ HasUpper(loaded, g + 1)
        /\ g \in Inserted /\ g + 1 \in Inserted

(* C17 as stated: on an input with missing ids adjacent to other missing    *)
(* ids, the immediate-insert sweep of patch_leds and the snapshot variant   *)
(* end after a different number of iterations (exact arithmetic).           *)
C17_Original ==
    (Returned /\ max_iterations >= 1 /\ C17_AdjacentGaps) =>
        while_loop_snapshot(loaded, total_leds, 0, max_iterations).iteration # iteration

(* C17 amended: in exact arithmetic the immediate-insert sweep of           *)
(* patch_leds and the snapshot variant are indistinguishable: on the same   *)
(* input and cap they execute the same number of iterations and return the  *)
(* same map, with the same record for every inserted id, also for missing   *)
(* ids adjacent to other missing ids.                                       *)
C17_SameAsSnapshot ==
    Returned =>
        /\ while_loop_snapshot(loaded, total_leds, 0, max_iterations).iteration = iteration
        /\ while_loop_snapshot(loaded, total_leds, 0, max_iterations).leds = leds

\* adjacent ids were inserted at different positions between loaded keys
C17_Witness ==
    /\ Returned
    /\ C17_AdjacentGaps
    /\ \E g \in Inserted :
          /\ g + 1 \in Inserted
          /\ leds[g].x # leds[g + 1].x
          /\ leds[g].x # Zero

====
